---- MODULE Spec2Model ----
(***************************************************************************)
(* A model of the credit-card content generator:                           *)
(*   - the content proxy (supabase/functions/generate-content/index.ts),   *)
(*     a request handler that calls the generative API and splits/pads     *)
(*     its text into four variations;                                      *)
(*   - the ContentGenerator component (src/components/                     *)
(*     ContentGenerator.tsx): card search and the generation workflow      *)
(*     that records one user_inputs row and four ai_outputs rows.          *)
(* JavaScript strings are sequences of one-character strings.              *)
(***************************************************************************)
EXTENDS Integers, Sequences, FiniteSets, TLC

VARIABLES
    \* ---- content proxy (index.ts) ----
    pxKey,          \* Deno.env has GEMINI_API_KEY
    pxPc,           \* "idle" | "fetching" | "responded"
    pxReq,          \* the request being served
    pxCalled,       \* the generative API was called for this request
    pxUp,           \* what the generative API answered
    pxResp,         \* the Response returned
    \* ---- ContentGenerator component (ContentGenerator.tsx) ----
    selectedCard, cardSearch, searchResults, isSearching,
    platform, audience, language, tone, customPrompt,
    isGenerating, generatedContent,
    lastToast,      \* title of the toast shown last
    searches,       \* catalog lookups in flight
    nSearch,        \* searchCards calls so far
    lastSearch,     \* what the last searchCards step did
    wfs,            \* generateContent workflows, in start order
    user_inputs, ai_outputs,   \* the two database tables
    pendingOutputs, \* ai_outputs inserts in flight
    lastSettled     \* variation number of the ai_outputs insert that settled last

pxVars == <<pxKey, pxPc, pxReq, pxCalled, pxUp, pxResp>>
searchVars == <<cardSearch, searchResults, isSearching, searches, nSearch, lastSearch>>
formVars == <<platform, audience, language, tone, customPrompt>>
genVars == <<isGenerating, generatedContent, wfs, user_inputs, ai_outputs,
             pendingOutputs, lastSettled>>
uiVars == <<selectedCard, searchVars, formVars, genVars, lastToast>>
vars == <<pxVars, uiVars>>

(***************************************************************************)
(* Strings                                                                 *)
(***************************************************************************)
Digits == {"0", "1", "2", "3", "4", "5", "6", "7", "8", "9"}
Whitespace == {" ", "\n", "\t"}
UpperChars == <<"A","B","C","D","E","F","G","H","I","J","K","L","M",
                "N","O","P","Q","R","S","T","U","V","W","X","Y","Z">>
LowerChars == <<"a","b","c","d","e","f","g","h","i","j","k","l","m",
                "n","o","p","q","r","s","t","u","v","w","x","y","z">>

LowerChar(c) ==
    IF \E k \in DOMAIN UpperChars : UpperChars[k] = c
    THEN LowerChars[CHOOSE k \in DOMAIN UpperChars : UpperChars[k] = c]
    ELSE c

\* String.prototype.toLowerCase
ToLowerCase(s) == [k \in 1..Len(s) |-> LowerChar(s[k])]

SetMin(S) == CHOOSE x \in S : \A y \in S : x <= y
SetMax(S) == CHOOSE x \in S : \A y \in S : x >= y

\* String.prototype.trim
Trim(s) ==
    LET ink == {k \in 1..Len(s) : s[k] \notin Whitespace}
    IN  IF ink = {} THEN <<>> ELSE SubSeq(s, SetMin(ink), SetMax(ink))

\* String.prototype.includes
Includes(s, sub) ==
    \E k \in 0..(Len(s) - Len(sub)) : SubSeq(s, k + 1, k + Len(sub)) = sub

RECURSIVE Concat(_)
Concat(ss) == IF ss = <<>> THEN <<>> ELSE Head(ss) \o Concat(Tail(ss))

\* Array.prototype.slice(0, n)
Slice(xs, n) == SubSeq(xs, 1, IF Len(xs) < n THEN Len(xs) ELSE n)

RECURSIVE SelectSeqBy(_, _)
\* Array.prototype.filter, Test(x) given as the set of elements kept
SelectSeqBy(xs, keep) ==
    IF xs = <<>> THEN <<>>
    ELSE IF Head(xs) \in keep
         THEN <<Head(xs)>> \o SelectSeqBy(Tail(xs), keep)
         ELSE SelectSeqBy(Tail(xs), keep)

(***************************************************************************)
(* Content proxy: the split/pad step                                       *)
(***************************************************************************)
NumVariations == 4

\* The first index after the run of digits that starts at k.
RECURSIVE DigitRunEnd(_, _)
DigitRunEnd(s, k) ==
    IF k <= Len(s) /\ s[k] \in Digits THEN DigitRunEnd(s, k + 1) ELSE k

\* A match of /\d+\./ starts at k.
MatchStartsAt(s, k) ==
    /\ k <= Len(s)
    /\ s[k] \in Digits
    /\ DigitRunEnd(s, k) <= Len(s)
    /\ s[DigitRunEnd(s, k)] = "."

RECURSIVE SplitFrom(_, _, _, _)
\* generatedText.split(/\d+\./): k scans, start is where the open piece begins.
SplitFrom(s, k, start, acc) ==
    IF k > Len(s) THEN Append(acc, SubSeq(s, start, Len(s)))
    ELSE IF MatchStartsAt(s, k)
         THEN LET e == DigitRunEnd(s, k) + 1
              IN  SplitFrom(s, e, e, Append(acc, SubSeq(s, start, k - 1)))
         ELSE SplitFrom(s, k + 1, start, acc)

SplitDigitDot(s) == SplitFrom(s, 1, 1, <<>>)

\* .filter(text => text.trim()).map(text => text.trim())
TrimmedSegments(s) ==
    LET pieces == SplitDigitDot(s)
        kept == SelectSeqBy(pieces, {p \in {pieces[k] : k \in DOMAIN pieces} : Trim(p) # <<>>})
    IN  [k \in 1..Len(kept) |-> Trim(kept[k])]

\* `${x}` of a request field that may be missing from the body
Interp(present, x) == IF present THEN x ELSE <<"u","n","d","e","f","i","n","e","d">>

\* `${cardName} from ${bankName} - Great choice for ${audience.toLowerCase()}!`
Fallback(req) ==
    Interp(req.hasCardName, req.cardName)
    \o <<" ","f","r","o","m"," ">>
    \o Interp(req.hasBankName, req.bankName)
    \o <<" ","-"," ","G","r","e","a","t"," ","c","h","o","i","c","e"," ","f","o","r"," ">>
    \o ToLowerCase(req.audience)
    \o <<"!">>

\* A slip: the fallback is put in front (unshift) instead of behind.
PadToFront(xs, n, filler) ==
    [k \in 1..(n - Len(xs)) |-> filler] \o xs

RECURSIVE PadTo(_, _, _)
\* while (variations.length < 4) variations.push(fallback)
PadTo(xs, n, filler) == IF Len(xs) < n THEN PadTo(Append(xs, filler), n, filler) ELSE xs

\* audience.toLowerCase() throws a TypeError when audience is not in the body;
\* it is evaluated only when the loop body runs.
PadThrows(req, segs) == Len(segs) < NumVariations /\ ~req.hasAudience

Variations(req, text) ==
    PadTo(Slice(TrimmedSegments(text), NumVariations), NumVariations, Fallback(req))

(***************************************************************************)
(* Content proxy: the request handler                                      *)
(***************************************************************************)
\* Bounds of the inputs
MaxPieces == 4

StrAce == <<"A","c","e">>
StrHD == <<"H","D">>
StrFriends == <<"F","r","i","e","n","d","s">>

\* Requests: the method, whether req.json() parses, and which of the fields the
\* fallback string reads are in the body.
PxRequests ==
    { [method |-> m, bodyOk |-> b,
       hasCardName |-> hc, cardName |-> IF hc THEN StrAce ELSE <<>>,
       hasBankName |-> TRUE, bankName |-> StrHD,
       hasAudience |-> ha, audience |-> IF ha THEN StrFriends ELSE <<>>] :
      m \in {"OPTIONS", "POST"}, b \in BOOLEAN, hc \in BOOLEAN, ha \in BOOLEAN }

NoRequest ==
    [method |-> "none", bodyOk |-> FALSE, hasCardName |-> FALSE, cardName |-> <<>>,
     hasBankName |-> FALSE, bankName |-> <<>>, hasAudience |-> FALSE, audience |-> <<>>]

\* Texts the generative API may answer with: up to MaxPieces pieces, among them
\* numbered markers, bare digits and dots, blanks and words; and the text of
\* the documented example.
Pieces ==
    { <<"1", ".">>, <<"a">>, <<" ">>, <<"b", " ", "c", "2", ".", "d", "3", ".">>,
      <<"7">>, <<".">> }

RECURSIVE PieceTexts(_)
PieceTexts(n) ==
    IF n = 0 THEN {<<>>}
    ELSE LET shorter == PieceTexts(n - 1)
         IN  shorter \cup {t \o p : t \in shorter, p \in Pieces}

ExampleText ==
    <<"1","."," ","G","r","e","a","t"," ","c","a","r","d","!"," ",
      "2","."," ","T","r","y"," ","i","t"," ","t","o","d","a","y",".">>

\* Ten numbered segments, the last marker of two digits
TenText ==
    <<"1",".","a","2",".","b","3",".","c","4",".","d","5",".","e",
      "6",".","f","7",".","g","8",".","h","9",".","i","1","0",".","j">>

UpstreamTexts == PieceTexts(MaxPieces) \cup {ExampleText, TenText}

ErrorStatuses == {400, 429, 503}

NoUpstream == [kind |-> "none", status |-> 0, text |-> <<>>]
NoError == [message |-> "", code |-> 0]
NoResponse == [kind |-> "none", status |-> 0, variations |-> <<>>, error |-> NoError]

\* new Response(null, { headers: corsHeaders })
PreflightResponse ==
    [kind |-> "preflight", status |-> 200, variations |-> <<>>, error |-> NoError]
\* new Response(JSON.stringify({ variations: variations.slice(0, 4) }), ...)
VariationsResponse(vs) ==
    [kind |-> "variations", status |-> 200,
     variations |-> Slice(vs, NumVariations), error |-> NoError]
\* catch: new Response(JSON.stringify({ error: error.message }), { status: 500 })
ErrorResponse(msg, code) ==
    [kind |-> "error", status |-> 500, variations |-> <<>>,
     error |-> [message |-> msg, code |-> code]]

PxInit ==
    /\ pxKey \in BOOLEAN
    /\ pxPc = "idle"
    /\ pxReq = NoRequest
    /\ pxCalled = FALSE
    /\ pxUp = NoUpstream
    /\ pxResp = NoResponse

\* A slip: the key check is left out.
KeyCheckSkipped == TRUE

\* if (!geminiApiKey) throw ...: the handler goes on only with a key
KeyConfigured == pxKey

\* serve(async (req) => ...) up to the await of fetch
PxServe(req) ==
    /\ pxPc = "idle"
    /\ pxReq' = req
    /\ pxUp' = NoUpstream
    /\ pxKey' = pxKey
    /\ UNCHANGED uiVars
    /\ IF req.method = "OPTIONS"
       THEN pxPc' = "responded" /\ pxCalled' = FALSE /\ pxResp' = PreflightResponse
       ELSE IF ~req.bodyOk
       THEN /\ pxPc' = "responded" /\ pxCalled' = FALSE
            /\ pxResp' = ErrorResponse("Unexpected end of JSON input", 0)
       ELSE IF ~KeyConfigured
       THEN /\ pxPc' = "responded" /\ pxCalled' = FALSE
            /\ pxResp' = ErrorResponse("Gemini API key not configured", 0)
       ELSE pxPc' = "fetching" /\ pxCalled' = TRUE /\ pxResp' = NoResponse

\* What the handler returns once fetch has settled with `up`.
PxOutcome(req, up) ==
    IF up.kind = "network" THEN ErrorResponse("fetch failed", 0)
    ELSE IF up.kind = "status" THEN ErrorResponse("Gemini API error: ", up.status)
    ELSE IF up.kind = "notext"
    THEN ErrorResponse("Cannot read properties of undefined (reading '0')", 0)
    ELSE IF PadThrows(req, Slice(TrimmedSegments(up.text), NumVariations))
    THEN ErrorResponse("Cannot read properties of undefined (reading 'toLowerCase')", 0)
    ELSE VariationsResponse(Variations(req, up.text))

\* fetch settles: it rejects, or resolves with a non-ok status, with a body that
\* has no candidates, or with a text; the handler runs to its return.
PxUpstreamReply(up) ==
    /\ pxPc = "fetching"
    /\ pxUp' = up
    /\ pxResp' = PxOutcome(pxReq, up)
    /\ pxPc' = "responded"
    /\ UNCHANGED <<pxKey, pxReq, pxCalled>>
    /\ UNCHANGED uiVars

\* The response is sent; the server waits for the next request.
PxNextRequest ==
    /\ pxPc = "responded"
    /\ pxPc' = "idle"
    /\ pxReq' = NoRequest /\ pxCalled' = FALSE /\ pxUp' = NoUpstream
    /\ pxResp' = NoResponse
    /\ pxKey' = pxKey
    /\ UNCHANGED uiVars

UpstreamAnswers ==
    {[kind |-> "network", status |-> 0, text |-> <<>>]}
    \cup {[kind |-> "status", status |-> st, text |-> <<>>] : st \in ErrorStatuses}
    \cup {[kind |-> "notext", status |-> 200, text |-> <<>>]}
    \cup {[kind |-> "text", status |-> 200, text |-> t] : t \in UpstreamTexts}

PxNext ==
    \/ \E req \in PxRequests : PxServe(req)
    \/ \E up \in UpstreamAnswers : PxUpstreamReply(up)
    \/ PxNextRequest

(***************************************************************************)
(* ContentGenerator: state after construction                              *)
(***************************************************************************)
\* null (no card selected); a value v is held as <<v>>
Null == <<>>

NoSearchStep == [op |-> "none", id |-> 0, query |-> <<>>, data |-> <<>>]

UiInit ==
    /\ selectedCard = Null
    /\ cardSearch = <<>>
    /\ searchResults = <<>>
    /\ isSearching = FALSE
    /\ platform = "" /\ audience = <<>> /\ language = "" /\ tone = ""
    /\ customPrompt = ""
    /\ isGenerating = FALSE
    /\ generatedContent = <<>>
    /\ lastToast = "none"
    /\ searches = {}
    /\ nSearch = 0
    /\ lastSearch = NoSearchStep
    /\ wfs = <<>>
    /\ user_inputs = {}
    /\ ai_outputs = {}
    /\ pendingOutputs = {}
    /\ lastSettled = 0

Init == PxInit /\ UiInit

(***************************************************************************)
(* ContentGenerator: card search                                           *)
(***************************************************************************)
MaxSearches == 3
MaxResults == 5

\* A card object of the catalog API; card_name may be missing (card_name?.).
ApiCard(id, hasName, name, bank) ==
    [id |-> id, hasName |-> hasName, card_name |-> name, issuing_bank |-> bank,
     slug |-> id]

\* The catalog the lookup returns: seven cards hold an "a" in the name or the
\* bank, three are of bank "Hd", one has no name, one matches only "z".
Catalog ==
    << ApiCard(1, TRUE, <<"A","x">>, <<"H","d">>),
       ApiCard(2, TRUE, <<"a","B">>, <<"I","c">>),
       ApiCard(3, TRUE, <<"C","a">>, <<"H","d">>),
       ApiCard(4, TRUE, <<"Z","z">>, <<"Q","q">>),
       ApiCard(5, TRUE, <<"D","A">>, <<"S","b">>),
       ApiCard(6, FALSE, <<>>, <<"K","a">>),
       ApiCard(7, TRUE, <<"E","e">>, <<"A","u">>),
       ApiCard(8, TRUE, <<"F","a">>, <<"H","d">>) >>

\* What the user may type
Queries == { <<>>, <<" ">>, <<"a">>, <<" ","a">>, <<"h","D">>, <<"z">> }

\* What the lookup may answer: the catalog, a shorter catalog, a body without
\* a data field; or the fetch or the parse of the body fails.
LookupAnswers ==
    { [ok |-> TRUE, hasData |-> TRUE, data |-> Catalog],
      [ok |-> TRUE, hasData |-> TRUE, data |-> SubSeq(Catalog, 3, 5)],
      [ok |-> TRUE, hasData |-> FALSE, data |-> <<>>],
      [ok |-> FALSE, hasData |-> FALSE, data |-> <<>>] }

\* A slip: the comparison without toLowerCase on the card's fields.
CardMatchesCaseSensitive(card, query) ==
    \/ card.hasName /\ Includes(card.card_name, ToLowerCase(query))
    \/ Includes(card.issuing_bank, ToLowerCase(query))

\* card.card_name?.toLowerCase().includes(query.toLowerCase()) ||
\* card.issuing_bank?.toLowerCase().includes(query.toLowerCase())
CardMatches(card, query) ==
    \/ card.hasName /\ Includes(ToLowerCase(card.card_name), ToLowerCase(query))
    \/ Includes(ToLowerCase(card.issuing_bank), ToLowerCase(query))

\* data.data?.filter(...).slice(0, 5) || []
FilteredCards(answer, query) ==
    IF ~answer.hasData THEN <<>>
    ELSE LET data == answer.data
         IN  Slice(SelectSeqBy(data, {c \in {data[k] : k \in DOMAIN data} :
                                        CardMatches(c, query)}),
                   MaxResults)

\* filteredCards.map(card => ({ id, card_name, bank_name: card.issuing_bank, ... }))
ToCreditCard(card) ==
    [id |-> card.id, hasName |-> card.hasName, card_name |-> card.card_name,
     bank_name |-> card.issuing_bank, slug |-> card.slug]

\* A slip: the test without trim.
QueryIsEmptyNoTrim(query) == query = <<>>

\* if (!query.trim())
QueryIsEmpty(query) == Trim(query) = <<>>

\* onChange of the search input: setCardSearch(value); searchCards(value) up to
\* its return or to the await of fetch.
TypeQuery(query) ==
    /\ nSearch < MaxSearches
    /\ nSearch' = nSearch + 1
    /\ cardSearch' = query
    /\ IF QueryIsEmpty(query)
       THEN /\ searchResults' = <<>>
            /\ lastSearch' = [op |-> "empty", id |-> nSearch + 1, query |-> query,
                              data |-> <<>>]
            /\ UNCHANGED <<isSearching, searches>>
       ELSE /\ isSearching' = TRUE
            /\ searches' = searches \cup {[id |-> nSearch + 1, query |-> query]}
            /\ lastSearch' = [op |-> "issued", id |-> nSearch + 1, query |-> query,
                              data |-> <<>>]
            /\ UNCHANGED searchResults
    /\ UNCHANGED <<selectedCard, formVars, genVars, lastToast, pxVars>>

\* A slip: the catch block also empties the result list.
SearchFailedClears(req) ==
    /\ lastToast' = "Search failed"
    /\ lastSearch' = [op |-> "failed", id |-> req.id, query |-> req.query, data |-> <<>>]
    /\ searchResults' = <<>>

\* The catch block of searchCards: the toast, and nothing else.
SearchFailed(req) ==
    /\ lastToast' = "Search failed"
    /\ lastSearch' = [op |-> "failed", id |-> req.id, query |-> req.query, data |-> <<>>]
    /\ UNCHANGED searchResults

\* A slip that is no part of the code: a guard that lets only the answer to the
\* latest searchCards call write the result list.
SearchResponseLatestOnly(req, answer) ==
    /\ req \in searches
    /\ searches' = searches \ {req}
    /\ IF answer.ok
       THEN /\ searchResults' =
                  IF req.id = nSearch
                  THEN LET found == FilteredCards(answer, req.query)
                       IN  [k \in 1..Len(found) |-> ToCreditCard(found[k])]
                  ELSE searchResults
            /\ lastSearch' = [op |-> "results", id |-> req.id, query |-> req.query,
                              data |-> IF answer.hasData THEN answer.data ELSE <<>>]
            /\ UNCHANGED lastToast
       ELSE SearchFailed(req)
    /\ isSearching' = FALSE
    /\ UNCHANGED <<selectedCard, cardSearch, nSearch, formVars, genVars, pxVars>>

\* A lookup in flight settles and searchCards runs to its end (finally included).
SearchResponse(req, answer) ==
    /\ req \in searches
    /\ searches' = searches \ {req}
    /\ IF answer.ok
       THEN /\ searchResults' =
                  LET found == FilteredCards(answer, req.query)
                  IN  [k \in 1..Len(found) |-> ToCreditCard(found[k])]
            /\ lastSearch' = [op |-> "results", id |-> req.id, query |-> req.query,
                              data |-> IF answer.hasData THEN answer.data ELSE <<>>]
            /\ UNCHANGED lastToast
       ELSE SearchFailed(req)
    /\ isSearching' = FALSE
    /\ UNCHANGED <<selectedCard, cardSearch, nSearch, formVars, genVars, pxVars>>

\* `${card.card_name} - ${card.bank_name}`
CardLabel(card) ==
    Interp(card.hasName, card.card_name) \o <<" ", "-", " ">> \o card.bank_name

\* onClick of a search result
SelectCard(k) ==
    /\ k \in DOMAIN searchResults
    /\ selectedCard' = <<searchResults[k]>>
    /\ cardSearch' = CardLabel(searchResults[k])
    /\ searchResults' = <<>>
    /\ lastSearch' = [op |-> "select", id |-> 0, query |-> <<>>, data |-> <<>>]
    /\ UNCHANGED <<isSearching, searches, nSearch, formVars, genVars, lastToast, pxVars>>

SearchNext ==
    \/ \E q \in Queries : TypeQuery(q)
    \/ \E req \in searches, answer \in LookupAnswers : SearchResponse(req, answer)
    \/ \E k \in 1..MaxResults : SelectCard(k)

\* The content proxy alone
SpecProxy == Init /\ [][PxNext]_vars
\* Card search alone
SpecSearch == Init /\ [][SearchNext]_vars

(***************************************************************************)
(* ContentGenerator: the form and the generation workflow                  *)
(***************************************************************************)
MaxGenerations == 2

\* Values of the form's controls ("" and <<>>: nothing chosen yet)
Platforms == {"whatsapp"}
Audiences == { <<"f","r","i","e","n","d","s">> }
Languages == {"english"}
Tones == {"friendly", "exciting"}
CustomPrompts == {"", "p"}

SetPlatform(v) ==
    /\ platform' = v
    /\ UNCHANGED <<selectedCard, searchVars, audience, language, tone, customPrompt,
                   genVars, lastToast, pxVars>>
SetAudience(v) ==
    /\ audience' = v
    /\ UNCHANGED <<selectedCard, searchVars, platform, language, tone, customPrompt,
                   genVars, lastToast, pxVars>>
SetLanguage(v) ==
    /\ language' = v
    /\ UNCHANGED <<selectedCard, searchVars, platform, audience, tone, customPrompt,
                   genVars, lastToast, pxVars>>
SetTone(v) ==
    /\ tone' = v
    /\ UNCHANGED <<selectedCard, searchVars, platform, audience, language, customPrompt,
                   genVars, lastToast, pxVars>>
SetCustomPrompt(v) ==
    /\ customPrompt' = v
    /\ UNCHANGED <<selectedCard, searchVars, platform, audience, language, tone,
                   genVars, lastToast, pxVars>>

\* The four strings of mockContent, each template literal as the sequence of
\* its literal parts and interpolated values.
MockContent(card, aud, tn) ==
    LET name == Interp(card.hasName, card.card_name)
    IN  << << "(dart) Exclusive ", name, " offer! Perfect for ", ToLowerCase(aud), ". ",
              IF tn = "exciting" THEN "(rocket)" ELSE "", "" >>,
           << "Looking for a great credit card? The ", name, " from ", card.bank_name,
              " is exactly what you need!" >>,
           << "", IF tn = "friendly" THEN "Hey there!" ELSE "Attention:",
              " Just discovered the amazing benefits of ", name,
              ". Worth checking out!" >>,
           << "", name,
              " review: This card offers incredible value. Here's why it's perfect for your needs..." >> >>

\* A slip: every new row is given the same id.
NewIdFixed(table) == 1

\* The id the database gives a new user_inputs row: one no row has
NewId(table) == 1 + SetMax({0} \cup {r.id : r \in table})

\* A slip: an upsert keyed on the card (user_inputs) or on the variation number
\* (ai_outputs) in place of the insert.
InsertRowUpsert(table, row) ==
    LET sameKey(r) == IF "card_id" \in DOMAIN row
                      THEN r.card_id = row.card_id
                      ELSE r.variation_number = row.variation_number
    IN  {r \in table : ~sameKey(r)} \cup {row}

\* .insert(row): the table with the row added
InsertRow(table, row) == table \cup {row}

\* A slip: the validation forgets the tone.
ValidatesButTone ==
    selectedCard # Null /\ platform # "" /\ audience # <<>> /\ language # ""

\* if (!selectedCard || !platform || !audience || !language || !tone) fails
Validates ==
    selectedCard # Null /\ platform # "" /\ audience # <<>> /\ language # "" /\ tone # ""

\* A slip: the "Generate Now" button is not disabled while a generation runs.
GenerateNowNoBusyCheck ==
    ~(selectedCard = Null \/ platform = "" \/ audience = <<>> \/ language = ""
      \/ tone = "")

\* disabled= of the "Generate Now" button
GenerateNowEnabled ==
    ~(selectedCard = Null \/ platform = "" \/ audience = <<>> \/ language = ""
      \/ tone = "" \/ isGenerating)

\* The "Regenerate" button is rendered and not disabled
RegenerateEnabled == Len(generatedContent) > 0 /\ ~isGenerating

\* The workflow generateContent starts: the values its closure holds, the
\* state of its user_inputs insert and of its four ai_outputs inserts.
NewWorkflow(via) ==
    [pc |-> "input", via |-> via, card |-> selectedCard[1], platform |-> platform,
     audience |-> audience, language |-> language, tone |-> tone,
     customPrompt |-> customPrompt, inputId |-> 0,
     out |-> [k \in 1..NumVariations |-> "none"]]

\* generateContent up to its return or to the await of the user_inputs insert
generateContent(via) ==
    IF ~Validates
    THEN /\ lastToast' = "Missing information"
         /\ UNCHANGED <<isGenerating, generatedContent, wfs, user_inputs, ai_outputs,
                        pendingOutputs, lastSettled>>
    ELSE /\ Len(wfs) < MaxGenerations
         /\ isGenerating' = TRUE
         /\ wfs' = Append(wfs, NewWorkflow(via))
         /\ UNCHANGED <<generatedContent, user_inputs, ai_outputs, pendingOutputs,
                        lastSettled, lastToast>>

ClickGenerateNow ==
    /\ GenerateNowEnabled
    /\ generateContent("generate")
    /\ UNCHANGED <<selectedCard, searchVars, formVars, pxVars>>

ClickRegenerate ==
    /\ RegenerateEnabled
    /\ generateContent("regenerate")
    /\ UNCHANGED <<selectedCard, searchVars, formVars, pxVars>>

\* generateContent run while a required value is missing: the branch of lines
\* 90-97, which the disabled "Generate Now" button keeps a click from reaching.
InvokeWhileUnset ==
    /\ selectedCard = Null \/ platform = "" \/ audience = <<>> \/ language = ""
       \/ tone = ""
    /\ generateContent("call")
    /\ UNCHANGED <<selectedCard, searchVars, formVars, pxVars>>

\* The row generateContent inserts into user_inputs
InputRow(w, id) ==
    [id |-> id, card_id |-> w.card.id, platform |-> w.platform, audience |-> w.audience,
     language |-> w.language, tone |-> w.tone,
     custom_prompt |-> IF w.customPrompt = "" THEN Null ELSE <<w.customPrompt>>]

\* The insert of variation k of workflow n, and the row it adds
OutputInsert(n, w, id, k) ==
    [wf |-> n, input_id |-> id, variation_number |-> k,
     content_variation |-> MockContent(w.card, w.audience, w.tone)[k]]
OutputRow(ins) ==
    [id |-> <<ins.wf, ins.variation_number>>, input_id |-> ins.input_id,
     variation_number |-> ins.variation_number,
     content_variation |-> ins.content_variation]

\* A slip: the catch block also empties the displayed content.
GenerationFailedClears ==
    /\ lastToast' = "Generation failed"
    /\ isGenerating' = FALSE
    /\ generatedContent' = <<>>

\* catch and finally of generateContent
GenerationFailed ==
    /\ lastToast' = "Generation failed"
    /\ isGenerating' = FALSE
    /\ UNCHANGED generatedContent

\* The user_inputs insert of workflow n settles; on success generateContent
\* runs on to the four ai_outputs inserts it issues together.
InputInsertDone(n, ok) ==
    /\ n \in DOMAIN wfs
    /\ wfs[n].pc = "input"
    /\ IF ok
       THEN LET id == NewId(user_inputs)
            IN  /\ user_inputs' = InsertRow(user_inputs, InputRow(wfs[n], id))
                /\ wfs' = [wfs EXCEPT ![n].pc = "outputs", ![n].inputId = id,
                                      ![n].out = [k \in 1..NumVariations |-> "pending"]]
                /\ pendingOutputs' = pendingOutputs \cup
                       {OutputInsert(n, wfs[n], id, k) : k \in 1..NumVariations}
                /\ UNCHANGED <<isGenerating, generatedContent, lastToast>>
       ELSE /\ wfs' = [wfs EXCEPT ![n].pc = "failedInput"]
            /\ GenerationFailed
            /\ UNCHANGED <<user_inputs, pendingOutputs>>
    /\ UNCHANGED <<ai_outputs, lastSettled, selectedCard, searchVars, formVars, pxVars>>

\* A slip: the rows are collected as the inserts settle (results.push in each
\* callback), so that the row of the insert that settled last comes last.
ResultsAsSettled(n, w) ==
    [i \in 1..NumVariations |->
        LET k == IF i = NumVariations THEN lastSettled'
                 ELSE IF i < lastSettled' THEN i ELSE i + 1
        IN  OutputRow(OutputInsert(n, w, w.inputId, k))]

\* const results = await Promise.all(contentPromises): the rows in index order
Results(n, w) ==
    [k \in 1..NumVariations |-> OutputRow(OutputInsert(n, w, w.inputId, k))]

\* A slip: Promise.allSettled in place of Promise.all (waits for every insert
\* and never rejects).
PromiseAllSettledState(out) ==
    IF \E j \in DOMAIN out : out[j] = "pending" THEN "pending" ELSE "fulfilled"

\* Promise.all(contentPromises): rejected by the first insert that fails,
\* fulfilled when every insert has succeeded.
PromiseAllState(out) ==
    IF \E j \in DOMAIN out : out[j] = "err" THEN "rejected"
    ELSE IF \A j \in DOMAIN out : out[j] = "ok" THEN "fulfilled"
    ELSE "pending"

\* One ai_outputs insert settles. While Promise.all is awaited, its rejection
\* runs catch and finally, and its fulfilment runs setGeneratedContent and
\* finally; the inserts still in flight go on either way.
OutputInsertDone(ins, ok) ==
    /\ ins \in pendingOutputs
    /\ pendingOutputs' = pendingOutputs \ {ins}
    /\ lastSettled' = ins.variation_number
    /\ ai_outputs' = IF ok THEN InsertRow(ai_outputs, OutputRow(ins)) ELSE ai_outputs
    /\ LET n == ins.wf
           k == ins.variation_number
           out == [wfs[n].out EXCEPT ![k] = IF ok THEN "ok" ELSE "err"]
       IN  IF wfs[n].pc # "outputs" \/ PromiseAllState(out) = "pending"
           THEN /\ wfs' = [wfs EXCEPT ![n].out = out]
                /\ UNCHANGED <<isGenerating, generatedContent, lastToast>>
           ELSE IF PromiseAllState(out) = "rejected"
           THEN /\ wfs' = [wfs EXCEPT ![n].out = out, ![n].pc = "failedOutput"]
                /\ GenerationFailed
           ELSE /\ wfs' = [wfs EXCEPT ![n].out = out, ![n].pc = "done"]
                /\ generatedContent' = Results(n, wfs[n])
                /\ isGenerating' = FALSE
                /\ UNCHANGED lastToast
    /\ UNCHANGED <<user_inputs, selectedCard, searchVars, formVars, pxVars>>

GenNext ==
    \/ \E k \in 1..MaxResults : SelectCard(k)
    \/ \E v \in Platforms : SetPlatform(v)
    \/ \E v \in Audiences : SetAudience(v)
    \/ \E v \in Languages : SetLanguage(v)
    \/ \E v \in Tones : SetTone(v)
    \/ \E v \in CustomPrompts : SetCustomPrompt(v)
    \/ ClickGenerateNow
    \/ ClickRegenerate
    \/ InvokeWhileUnset
    \/ \E n \in 1..MaxGenerations, ok \in BOOLEAN : InputInsertDone(n, ok)
    \/ \E ins \in pendingOutputs, ok \in BOOLEAN : OutputInsertDone(ins, ok)

\* The state in which the generation workflow is studied: the user has typed
\* "z" and the lookup has answered with the catalog, so that the result list
\* shows the one card that matches (SpecSearch reaches this state).
GenStartQuery == <<"z">>
GenStartAnswer == [ok |-> TRUE, hasData |-> TRUE, data |-> Catalog]
UiAfterSearch ==
    /\ selectedCard = Null
    /\ cardSearch = GenStartQuery
    /\ searchResults =
          LET found == FilteredCards(GenStartAnswer, GenStartQuery)
          IN  [k \in 1..Len(found) |-> ToCreditCard(found[k])]
    /\ isSearching = FALSE
    /\ platform = "" /\ audience = <<>> /\ language = "" /\ tone = ""
    /\ customPrompt = ""
    /\ isGenerating = FALSE
    /\ generatedContent = <<>>
    /\ lastToast = "none"
    /\ searches = {}
    /\ nSearch = 1
    /\ lastSearch = [op |-> "results", id |-> 1, query |-> GenStartQuery, data |-> Catalog]
    /\ wfs = <<>>
    /\ user_inputs = {}
    /\ ai_outputs = {}
    /\ pendingOutputs = {}
    /\ lastSettled = 0

GenInit == PxInit /\ pxKey = TRUE /\ UiAfterSearch

\* The form and the generation workflow, from a displayed search result on
SpecGen == GenInit /\ [][GenNext]_vars

\* The whole system
Next == PxNext \/ SearchNext \/ GenNext
Spec == Init /\ [][Next]_vars

(***************************************************************************)
(* Claims about the content proxy (checked under SpecProxy)                *)
(***************************************************************************)
\* The handler has returned a response to a request that was no preflight.
PxAnswered == pxPc = "responded" /\ pxReq.method # "OPTIONS"

\* C1: whenever the generative API answers with a success status and a
\* text, the split/pad step yields exactly 4 strings, each non-empty, for every
\* number of numbered segments in the text.
C1_SplitPadYieldsFour ==
    (PxAnswered /\ pxUp.kind = "text") =>
        /\ pxResp.kind = "variations"
        /\ Len(pxResp.variations) = 4
        /\ \A k \in DOMAIN pxResp.variations : pxResp.variations[k] # <<>>

\* The fallback string as the claim words it
C2Fallback(req) ==
    Concat(<< Interp(req.hasCardName, req.cardName), <<" ","f","r","o","m"," ">>,
              Interp(req.hasBankName, req.bankName),
              <<" ","-"," ","G","r","e","a","t"," ","c","h","o","i","c","e"," ",
                "f","o","r"," ">>,
              ToLowerCase(req.audience), <<"!">> >>)

C2ExampleSegments ==
    << <<"G","r","e","a","t"," ","c","a","r","d","!">>,
       <<"T","r","y"," ","i","t"," ","t","o","d","a","y",".">> >>

\* C2: a list of variations the proxy returns is, in order, the first
\* min(n, 4) non-empty trimmed segments of the upstream text followed by
\* 4 - min(n, 4) copies of the fallback string; the documented example yields
\* its two segments followed by two fallback strings, and a text of ten
\* numbered segments yields the first four.
C2_SplitPadResult ==
    pxResp.kind = "variations" =>
        LET segs == TrimmedSegments(pxUp.text)
            m == IF Len(segs) < 4 THEN Len(segs) ELSE 4
            fb == C2Fallback(pxReq)
        IN  /\ pxResp.variations = SubSeq(segs, 1, m) \o [k \in 1..(4 - m) |-> fb]
            /\ pxUp.text = ExampleText =>
                   pxResp.variations = C2ExampleSegments \o <<fb, fb>>
            /\ pxUp.text = TenText =>
                   pxResp.variations = << <<"a">>, <<"b">>, <<"c">>, <<"d">> >>

\* The documented example was answered: two segments, two fallback strings.
C2_Witness ==
    /\ pxResp.kind = "variations"
    /\ pxUp.text = ExampleText
    /\ pxResp.variations[2] = C2ExampleSegments[2]
    /\ pxResp.variations[3] = C2Fallback(pxReq)
    /\ pxResp.variations[4] = C2Fallback(pxReq)

\* C3: for a request that is no preflight, an absent credential or a
\* non-success status of the generative API yields a failure response (status
\* 500, an error message) without variations; with the credential absent the
\* generative API is never called; variations are returned only with the
\* credential present and a successful upstream call, and then exactly 4.
C3_FailClosed ==
    /\ pxCalled => pxKey
    /\ (PxAnswered /\ (~pxKey \/ pxUp.kind = "status")) =>
           /\ pxResp.kind = "error"
           /\ pxResp.status = 500
           /\ pxResp.error.message # ""
           /\ pxResp.variations = <<>>
    /\ pxResp.kind = "variations" =>
           /\ pxKey
           /\ pxUp.kind = "text"
           /\ Len(pxResp.variations) = 4

\* A request was refused for the missing credential.
C3_Witness ==
    /\ PxAnswered
    /\ pxReq.bodyOk
    /\ ~pxKey
    /\ ~pxCalled
    /\ pxResp.status = 500

(***************************************************************************)
(* Claims about the generation workflow (checked under SpecGen)            *)
(***************************************************************************)
AnyRequiredUnset ==
    selectedCard = Null \/ platform = "" \/ audience = <<>> \/ language = "" \/ tone = ""

\* C4: while any of card, platform, audience, language or tone is unset, a
\* step (generateContent invoked, among them) inserts no user_inputs and no
\* ai_outputs row, starts no workflow, leaves isGenerating and the displayed
\* content as they are, and shows no notice but the validation notice.
C4_BlockedWithoutSideEffects ==
    [][AnyRequiredUnset =>
          /\ UNCHANGED <<user_inputs, ai_outputs, pendingOutputs, wfs, isGenerating,
                         generatedContent>>
          /\ lastToast' # lastToast => lastToast' = "Missing information"]_vars

\* generateContent has run with the tone alone unset: the notice, nothing else.
C4_Witness ==
    /\ lastToast = "Missing information"
    /\ selectedCard # Null /\ platform # "" /\ audience # <<>> /\ language # ""
    /\ tone = ""
    /\ wfs = <<>> /\ user_inputs = {} /\ ai_outputs = {} /\ ~isGenerating

SameFieldValues(v, w) ==
    /\ v.card = w.card /\ v.platform = w.platform /\ v.audience = w.audience
    /\ v.language = w.language /\ v.tone = w.tone /\ v.customPrompt = w.customPrompt

\* Workflow n is a successful regeneration with the field values of the
\* earlier successful workflow m.
RegeneratedSame(m, n) ==
    /\ m < n
    /\ wfs[m].pc = "done" /\ wfs[n].pc = "done"
    /\ wfs[n].via = "regenerate"
    /\ SameFieldValues(wfs[m], wfs[n])

BatchOf(id) == {r \in ai_outputs : r.input_id = id}

\* C5: a successful regeneration with the field values of an earlier
\* successful generation has its own user_inputs row (a new id) and 4
\* ai_outputs rows linked to it, none of them a row of the earlier batch, which
\* still has its input row and its 4 rows; and no step removes or changes a row
\* of either table.
C5_RegenerateAddsBatch ==
    /\ [](\A m \in DOMAIN wfs, n \in DOMAIN wfs : RegeneratedSame(m, n) =>
            /\ wfs[n].inputId # wfs[m].inputId
            /\ Cardinality({r \in user_inputs : r.id = wfs[n].inputId}) = 1
            /\ Cardinality({r \in user_inputs : r.id = wfs[m].inputId}) = 1
            /\ Cardinality(BatchOf(wfs[n].inputId)) = 4
            /\ Cardinality(BatchOf(wfs[m].inputId)) = 4
            /\ \A r \in BatchOf(wfs[n].inputId), q \in BatchOf(wfs[m].inputId) :
                   r.id # q.id)
    /\ [][user_inputs \subseteq user_inputs' /\ ai_outputs \subseteq ai_outputs']_vars

C5_Witness ==
    /\ Len(wfs) = 2
    /\ RegeneratedSame(1, 2)
    /\ Cardinality(user_inputs) = 2
    /\ Cardinality(ai_outputs) = 8

\* C9: when the user_inputs insert of a workflow fails, the step shows the
\* generic failure notice and leaves the displayed content and both tables as
\* they are, and no ai_outputs insert of that workflow is ever issued or
\* stored.
C9_InputFailureAborts ==
    /\ [](\A n \in DOMAIN wfs : wfs[n].pc = "failedInput" =>
            /\ \A k \in 1..NumVariations : wfs[n].out[k] = "none"
            /\ \A ins \in pendingOutputs : ins.wf # n
            /\ \A r \in ai_outputs : r.id[1] # n)
    /\ [][\A n \in DOMAIN wfs :
            (wfs[n].pc = "input" /\ wfs'[n].pc = "failedInput") =>
                /\ lastToast' = "Generation failed"
                /\ generatedContent' = generatedContent
                /\ UNCHANGED <<user_inputs, ai_outputs, pendingOutputs>>]_vars

\* A regeneration failed at its user_inputs insert; the earlier content is
\* still displayed.
C9_Witness ==
    /\ Len(wfs) = 2
    /\ wfs[2].pc = "failedInput"
    /\ Len(generatedContent) = 4
    /\ lastToast = "Generation failed"
    /\ Cardinality(user_inputs) = 1

\* C10: when one of the four ai_outputs inserts of a workflow fails, the
\* workflow ends as failed: the step shows the generic failure notice and
\* leaves the displayed content as it is, the content never shows a row of
\* that workflow, and its input row and every row of it whose insert succeeded
\* stay in the database.
C10_OutputFailureNoRollback ==
    /\ [](\A n \in DOMAIN wfs :
            /\ (\E k \in 1..NumVariations : wfs[n].out[k] = "err") =>
                   wfs[n].pc = "failedOutput"
            /\ wfs[n].pc = "failedOutput" =>
                   /\ \E r \in user_inputs : r.id = wfs[n].inputId
                   /\ \A k \in 1..NumVariations : wfs[n].out[k] = "ok" =>
                          \E r \in ai_outputs :
                              /\ r.id = <<n, k>>
                              /\ r.input_id = wfs[n].inputId
                              /\ r.variation_number = k
                   /\ \A j \in DOMAIN generatedContent : generatedContent[j].id[1] # n)
    /\ [][\A n \in DOMAIN wfs :
            (wfs[n].pc = "outputs" /\ wfs'[n].pc = "failedOutput") =>
                /\ lastToast' = "Generation failed"
                /\ generatedContent' = generatedContent
                /\ user_inputs' = user_inputs
                /\ ai_outputs \subseteq ai_outputs']_vars

\* A workflow failed at one insert after another of its inserts had succeeded
\* and a third succeeded later: both rows and the input row are stored.
C10_Witness ==
    \E n \in DOMAIN wfs :
        /\ wfs[n].pc = "failedOutput"
        /\ wfs[n].out = <<"ok", "err", "ok", "pending">>
        /\ Cardinality(BatchOf(wfs[n].inputId)) = 2
        /\ \E r \in user_inputs : r.id = wfs[n].inputId

\* C11: in every reachable state, whatever generations and regenerations
\* have run and whichever of their inserts have succeeded or failed, each
\* user_inputs row has at most 4 ai_outputs rows linked to it, and the
\* variation numbers of these rows are pairwise distinct values in 1..4.
C11_AtMostOneBatch ==
    \A u \in user_inputs :
        /\ Cardinality(BatchOf(u.id)) <= 4
        /\ \A r \in BatchOf(u.id) : r.variation_number \in 1..4
        /\ \A r \in BatchOf(u.id), q \in BatchOf(u.id) :
               r.variation_number = q.variation_number => r = q

\* A generation stored its 4 rows, and a regeneration lost one insert and
\* stored the other 3: two input rows, a batch of 4 and a batch of 3.
C11_Witness ==
    /\ Len(wfs) = 2
    /\ wfs[1].pc = "done"
    /\ wfs[2].pc = "failedOutput" /\ wfs[2].via = "regenerate"
    /\ pendingOutputs = {}
    /\ Cardinality(user_inputs) = 2
    /\ Cardinality(BatchOf(wfs[1].inputId)) = 4
    /\ Cardinality(BatchOf(wfs[2].inputId)) = 3

\* C13: the four ai_outputs inserts of a workflow are in flight together,
\* so that they may settle in any order; and in the step in which the last of
\* them succeeds, whichever it is, the displayed list becomes a list of exactly
\* 4 entries whose i-th entry is the stored row of this workflow with variation
\* number i.
C13_DisplayOrderIsIndexOrder ==
    /\ [](\A n \in DOMAIN wfs : wfs[n].pc = "outputs" =>
            \A k \in 1..4 :
                wfs[n].out[k] \in {"pending", "ok"}
                /\ (wfs[n].out[k] = "pending" <=>
                       \E ins \in pendingOutputs :
                           ins.wf = n /\ ins.variation_number = k))
    /\ [][\A n \in DOMAIN wfs :
            (wfs[n].pc = "outputs" /\ wfs'[n].pc = "done") =>
                /\ Len(generatedContent') = 4
                /\ \A i \in 1..4 :
                       /\ generatedContent'[i].variation_number = i
                       /\ generatedContent'[i].input_id = wfs[n].inputId
                       /\ generatedContent'[i].id = <<n, i>>
                       /\ generatedContent'[i] \in ai_outputs']_vars

\* A generation succeeded whose insert of variation 1 settled last: the list
\* shows variation 1 first all the same.
C13_Witness ==
    /\ Len(wfs) = 1
    /\ wfs[1].pc = "done"
    /\ pendingOutputs = {}
    /\ lastSettled = 1
    /\ Len(generatedContent) = 4
    /\ \A i \in 1..4 : generatedContent[i].variation_number = i

\* Workflow n has passed validation and has not run its finally block yet.
InFlight(n) == wfs[n].pc \in {"input", "outputs"}

\* C14: isGenerating is true exactly while a generateContent workflow is
\* between passing validation and its finally block: the step that starts a
\* workflow sets it, every step that ends one (success, failed user_inputs
\* insert, failed ai_outputs insert) resets it, both buttons are disabled while
\* it is true, and at most one workflow is between these two points at any time.
C14_IsGeneratingTracksWorkflow ==
    /\ [](isGenerating <=> \E n \in DOMAIN wfs : InFlight(n))
    /\ [](Cardinality({n \in DOMAIN wfs : InFlight(n)}) <= 1)
    /\ [](isGenerating => ~GenerateNowEnabled /\ ~RegenerateEnabled)
    /\ [][/\ Len(wfs') > Len(wfs) => ~isGenerating /\ isGenerating'
          /\ \A n \in DOMAIN wfs :
                (InFlight(n) /\ wfs'[n].pc \in {"done", "failedInput", "failedOutput"})
                    => isGenerating /\ ~isGenerating']_vars

\* A generation ended at a failed ai_outputs insert while another of its
\* inserts was still in flight; a second generation was started and has
\* reached its own ai_outputs inserts: isGenerating is true for the second.
C14_Witness ==
    /\ Len(wfs) = 2
    /\ wfs[1].pc = "failedOutput"
    /\ \E ins \in pendingOutputs : ins.wf = 1
    /\ wfs[2].pc = "outputs"
    /\ isGenerating
    /\ ~GenerateNowEnabled

(***************************************************************************)
(* Claims about the card search (checked under SpecSearch)                 *)
(***************************************************************************)
\* The card holds q, compared without regard to case, in its name or its bank
HoldsQuery(card, q) ==
    \/ card.hasName /\ Includes(ToLowerCase(card.card_name), ToLowerCase(q))
    \/ Includes(ToLowerCase(card.issuing_bank), ToLowerCase(q))

\* C6: after a lookup for a non-empty query q has succeeded, the result
\* list has at most 5 cards, and its k-th card is the k-th card of the catalog
\* answer that holds q (case-insensitively) in its name or issuing bank: the
\* first such cards, in catalog order.
C6_SearchResults ==
    lastSearch.op = "results" =>
        LET q == lastSearch.query
            data == lastSearch.data
            hits == {i \in DOMAIN data : HoldsQuery(data[i], q)}
        IN  /\ q # <<>>
            /\ Len(searchResults) <= 5
            /\ Len(searchResults) =
                   IF Cardinality(hits) < 5 THEN Cardinality(hits) ELSE 5
            /\ \A k \in DOMAIN searchResults :
                   \E i \in hits :
                       /\ Cardinality({j \in hits : j < i}) = k - 1
                       /\ searchResults[k].id = data[i].id
                       /\ searchResults[k].card_name = data[i].card_name
                       /\ searchResults[k].bank_name = data[i].issuing_bank

\* The query "hD" has been answered from the catalog: the three cards of bank
\* "Hd"; and elsewhere a query with more than five hits is cut to five.
C6_Witness ==
    /\ lastSearch.op = "results"
    /\ lastSearch.query = <<"h", "D">>
    /\ lastSearch.data = Catalog
    /\ Len(searchResults) = 3
    /\ searchResults[3].id = 8

\* C7: a searchCards call with an empty or whitespace-only query empties
\* the result list, issues no lookup and leaves isSearching as it is.
C7_EmptyQuery ==
    [][(nSearch' = nSearch + 1 /\ \A k \in DOMAIN cardSearch' : cardSearch'[k] \in Whitespace)
          => /\ searchResults' = <<>>
             /\ searches' = searches
             /\ isSearching' = isSearching]_vars

\* A blank was typed while a lookup was in flight: no results, the lookup still
\* in flight, isSearching still true.
C7_Witness ==
    /\ lastSearch.op = "empty"
    /\ cardSearch = <<" ">>
    /\ searchResults = <<>>
    /\ Cardinality(searches) = 1
    /\ isSearching

\* C8 as stated: after a card search has failed, the failure notice is shown,
\* the result list is empty and isSearching is false.
C8_FailedSearchLeavesEmpty ==
    lastSearch.op = "failed" =>
        /\ lastToast = "Search failed"
        /\ searchResults = <<>>
        /\ ~isSearching

\* C8, amended: the step in which a card search fails shows the failure
\* notice, leaves the result list as it was (it is not emptied) and sets
\* isSearching to false.
C8_FailedSearchKeepsResults ==
    [][\A req \in searches :
          (req \notin searches' /\ lastSearch'.op = "failed" /\ lastSearch'.id = req.id) =>
              /\ lastToast' = "Search failed"
              /\ searchResults' = searchResults
              /\ ~isSearching']_vars

\* A search has failed while the list showed the results of an earlier one.
C8_Witness ==
    /\ lastSearch.op = "failed"
    /\ lastToast = "Search failed"
    /\ Len(searchResults) = 5
    /\ ~isSearching

\* The ids of the first n cards of data that hold q, in the order of data
RECURSIVE FirstHolding(_, _, _)
FirstHolding(data, q, n) ==
    IF data = <<>> \/ n = 0 THEN <<>>
    ELSE IF HoldsQuery(Head(data), q)
         THEN <<Head(data).id>> \o FirstHolding(Tail(data), q, n - 1)
         ELSE FirstHolding(Tail(data), q, n)

\* C12: card searches are not guarded against interleaving. Whichever
\* lookup in flight is answered, its answer overwrites the result list with
\* the cards found for its own query, also when a later query has been entered
\* since (issued, answered, or handled as an empty query); so the list can
\* show the results of a query that is not the one entered last.
C12_StaleResponseOverwrites ==
    [][\A req \in searches :
          (req \notin searches' /\ lastSearch'.op = "results") =>
              /\ lastSearch'.id = req.id
              /\ [k \in DOMAIN searchResults' |-> searchResults'[k].id]
                     = FirstHolding(lastSearch'.data, req.query, 5)]_vars

\* "hD" was typed, then "z"; the lookup for "z" was answered first and the one
\* for "hD" after it: the input holds "z", no lookup is in flight, and the list
\* shows the three cards of bank "Hd", none of which holds "z".
C12_Witness ==
    /\ nSearch = 2
    /\ cardSearch = <<"z">>
    /\ searches = {}
    /\ lastSearch.op = "results"
    /\ lastSearch.id = 1
    /\ lastSearch.query = <<"h", "D">>
    /\ Len(searchResults) = 3
    /\ \A k \in DOMAIN searchResults :
           /\ searchResults[k].bank_name = <<"H", "d">>
           /\ ~Includes(ToLowerCase(searchResults[k].card_name), cardSearch)
           /\ ~Includes(ToLowerCase(searchResults[k].bank_name), cardSearch)

====
